---- MODULE Spec2Model ----
(***************************************************************************)
(* csvtochart: the generate route (src/app/api/generate/route.ts) and the  *)
(* chart page (src/app/page.tsx).                                          *)
(*                                                                         *)
(* JavaScript values are modelled by one record shape, so that any two     *)
(* values can be compared:                                                 *)
(*   [t |-> type, s |-> symbols, n |-> numerator, d |-> denominator]       *)
(* A string is a sequence of symbols.  A symbol is one character, or a     *)
(* word that is never split ("Infinity", "_count", a column name, an       *)
(* enumeration word); no two symbols of the cell alphabet begin with the   *)
(* same character, so comparing symbols by their first code unit is the    *)
(* comparison of the strings.  A number is an exact fraction n/d, or one   *)
(* of NaN, Infinity, -Infinity (named by s); floating-point rounding is    *)
(* not modelled.                                                           *)
(***************************************************************************)
EXTENDS Integers, Sequences, FiniteSets, TLC

VARIABLES body, text, response, chartConfig, chartData, rendered,
          columns, fullData, sampleData, objective, loading, error, showModal, pc,
          results, calls

\* the state of the page (Home) besides chartConfig, the place handleSubmit
\* has reached, and the results the CSV parser handed over last
page ==
  <<columns, fullData, sampleData, objective, loading, error, showModal, pc, results>>

vars == <<body, text, response, chartConfig, chartData, rendered, page, calls>>

----------------------------------------------------------------------------
(* JavaScript values *)

Str(s) == [t |-> "string", s |-> s, n |-> 0, d |-> 1]

W(w) == Str(<<w>>)

Undefined == [t |-> "undefined", s |-> <<>>, n |-> 0, d |-> 1]

Null == [t |-> "null", s |-> <<>>, n |-> 0, d |-> 1]

NaN == [t |-> "number", s |-> <<"NaN">>, n |-> 0, d |-> 1]

PosInfinity == [t |-> "number", s |-> <<"Infinity">>, n |-> 0, d |-> 1]

NegInfinity == [t |-> "number", s |-> <<"-", "Infinity">>, n |-> 0, d |-> 1]

Abs(i) == IF i < 0 THEN -i ELSE i

RECURSIVE GCD(_, _)
GCD(a, b) == IF b = 0 THEN a ELSE GCD(b, a % b)

\* the finite number n/d (d # 0), in lowest terms with a positive denominator
Frac(n, d) ==
  LET g == GCD(Abs(n), Abs(d))
      sg == IF d < 0 THEN -1 ELSE 1
  IN  [t |-> "number", s |-> <<>>, n |-> (sg * n) \div g, d |-> Abs(d) \div g]

Num(i) == Frac(i, 1)

IsNumber(v) == v.t = "number"

IsNaN(v) == v = NaN

IsInf(v) == v = PosInfinity \/ v = NegInfinity

IsFinite(v) == IsNumber(v) /\ v.s = <<>>

Neg(v) ==
  IF v = PosInfinity THEN NegInfinity
  ELSE IF v = NegInfinity THEN PosInfinity
  ELSE IF IsNaN(v) THEN NaN
  ELSE Frac(-v.n, v.d)

\* ToNumber of the operands the transformers meet: numbers, and undefined (a
\* property that was deleted or never set)
ToNumber(v) == IF IsNumber(v) THEN v ELSE NaN

\* a + b on numbers
NumAdd(a0, b0) ==
  LET a == ToNumber(a0)
      b == ToNumber(b0)
  IN  IF IsNaN(a) \/ IsNaN(b) THEN NaN
      ELSE IF IsInf(a) THEN (IF IsInf(b) /\ b # a THEN NaN ELSE a)
      ELSE IF IsInf(b) THEN b
      ELSE Frac(a.n * b.d + b.n * a.d, a.d * b.d)

\* a - b on numbers
NumSub(a, b) == NumAdd(a, Neg(ToNumber(b)))

\* a / b on numbers
NumDiv(a0, b0) ==
  LET a == ToNumber(a0)
      b == ToNumber(b0)
  IN  IF IsNaN(a) \/ IsNaN(b) THEN NaN
      ELSE IF IsInf(a)
        THEN (IF IsInf(b) THEN NaN ELSE IF b.n < 0 THEN Neg(a) ELSE a)
      ELSE IF IsInf(b) THEN Num(0)
      ELSE IF b.n = 0
        THEN (IF a.n = 0 THEN NaN ELSE IF a.n > 0 THEN PosInfinity ELSE NegInfinity)
      ELSE Frac(a.n * b.d, a.d * b.n)

\* a > 0, a < 0 for a comparator's result (NaN is neither)
IsPositive(a) == a = PosInfinity \/ (IsFinite(a) /\ a.n > 0)

IsNegative(a) == a = NegInfinity \/ (IsFinite(a) /\ a.n < 0)

\* a >= b on numbers: false when either is NaN
NumGe(a, b) ==
  /\ ~IsNaN(a)
  /\ ~IsNaN(b)
  /\ (a = b \/ IsPositive(NumSub(a, b)))

\* ToBoolean
Truthy(v) ==
  CASE v.t = "undefined" -> FALSE
    [] v.t = "null" -> FALSE
    [] v.t = "string" -> v.s # <<>>
    [] v.t = "number" -> ~IsNaN(v) /\ ~(IsFinite(v) /\ v.n = 0)
    [] OTHER -> TRUE

\* a || b
Or(a, b) == IF Truthy(a) THEN a ELSE b

----------------------------------------------------------------------------
(* Strings *)

Digits == {"0", "1", "2", "3", "4", "5", "6", "7", "8", "9"}

DigitVal(c) ==
  CASE c = "0" -> 0 [] c = "1" -> 1 [] c = "2" -> 2 [] c = "3" -> 3
    [] c = "4" -> 4 [] c = "5" -> 5 [] c = "6" -> 6 [] c = "7" -> 7
    [] c = "8" -> 8 [] c = "9" -> 9

\* the first UTF-16 code unit of a symbol of the cell alphabet
CodeUnit(c) ==
  CASE c = " " -> 32
    [] c = "+" -> 43
    [] c = "-" -> 45
    [] c = "." -> 46
    [] c \in Digits -> 48 + DigitVal(c)
    [] c = "Infinity" -> 73
    [] c = "_count" -> 95
    [] c = "a" -> 97
    [] c = "b" -> 98
    [] c = "month" -> 109
    [] c = "null" -> 110
    [] c = "region" -> 114
    [] c = "sales" -> 115
    [] c = "undefined" -> 117

\* a < b by code units, as Array.prototype.sort compares strings
RECURSIVE StrLess(_, _)
StrLess(a, b) ==
  IF b = <<>> THEN FALSE
  ELSE IF a = <<>> THEN TRUE
  ELSE IF Head(a) = Head(b) THEN StrLess(Tail(a), Tail(b))
  ELSE CodeUnit(Head(a)) < CodeUnit(Head(b))

\* ToString of a string, undefined or null (the values a cell or a key can be)
ToStr(v) ==
  CASE v.t = "string" -> v.s
    [] v.t = "undefined" -> <<"undefined">>
    [] v.t = "null" -> <<"null">>

RECURSIVE TrimLeft(_)
TrimLeft(s) == IF s # <<>> /\ Head(s) = " " THEN TrimLeft(Tail(s)) ELSE s

\* the number of digits s begins with
RECURSIVE DigitRun(_)
DigitRun(s) == IF s # <<>> /\ Head(s) \in Digits THEN 1 + DigitRun(Tail(s)) ELSE 0

\* the decimal value of the first k symbols of s, all digits
RECURSIVE DigitsValue(_, _)
DigitsValue(s, k) == IF k = 0 THEN 0 ELSE DigitsValue(s, k - 1) * 10 + DigitVal(s[k])

RECURSIVE Pow10(_)
Pow10(k) == IF k = 0 THEN 1 ELSE 10 * Pow10(k - 1)

\* parseFloat of a string: leading white space skipped, then the longest prefix
\* that is a decimal literal (sign, Infinity or digits with an optional
\* fraction; the alphabet has no exponent letter); NaN when there is none
ParseFloatStr(s0) ==
  LET s1 == TrimLeft(s0)
      signed == s1 # <<>> /\ Head(s1) \in {"-", "+"}
      neg == s1 # <<>> /\ Head(s1) = "-"
      s2 == IF signed THEN Tail(s1) ELSE s1
      i == DigitRun(s2)
      rest == SubSeq(s2, i + 1, Len(s2))
      hasDot == rest # <<>> /\ Head(rest) = "."
      f == IF hasDot THEN DigitRun(Tail(rest)) ELSE 0
      mag == IF s2 # <<>> /\ Head(s2) = "Infinity" THEN PosInfinity
             ELSE IF i = 0 /\ f = 0 THEN NaN
             ELSE Frac(DigitsValue(s2, i) * Pow10(f)
                         + (IF f = 0 THEN 0 ELSE DigitsValue(Tail(rest), f)),
                       Pow10(f))
  IN  IF neg THEN Neg(mag) ELSE mag

\* parseFloat(v): v is converted to a string first
ParseFloat(v) == ParseFloatStr(ToStr(v))

RECURSIVE TrimRight(_)
TrimRight(s) ==
  IF s # <<>> /\ s[Len(s)] = " " THEN TrimRight(SubSeq(s, 1, Len(s) - 1)) ELSE s

\* String.prototype.trim
Trim(s) == TrimRight(TrimLeft(s))

\* the length of the prefix of s (no leading white space) that parseFloat reads
LiteralLen(s) ==
  LET signed == s # <<>> /\ Head(s) \in {"-", "+"}
      s2 == IF signed THEN Tail(s) ELSE s
      i == DigitRun(s2)
      rest == SubSeq(s2, i + 1, Len(s2))
      hasDot == rest # <<>> /\ Head(rest) = "."
      f == IF hasDot THEN DigitRun(Tail(rest)) ELSE 0
      sign == IF signed THEN 1 ELSE 0
  IN  IF s2 # <<>> /\ Head(s2) = "Infinity" THEN sign + 1
      ELSE IF i = 0 /\ f = 0 THEN 0
      ELSE sign + i + (IF hasDot THEN 1 + f ELSE 0)

\* Number(v) of a string: white space trimmed, the empty string is 0, and the
\* whole of the rest must be one decimal literal (the alphabet has no
\* exponent, hexadecimal, octal or binary literal)
StringToNumber(v) ==
  LET t == Trim(ToStr(v))
  IN  IF t = <<>> THEN Num(0)
      ELSE IF LiteralLen(t) = Len(t) THEN ParseFloatStr(t)
      ELSE NaN

\* a canonical array index ("0", "7", "10", not "07" or "-1"): such property
\* keys are enumerated before all others, in ascending numeric order.  The
\* digit strings of the model are shorter than 10 symbols, so all are below
\* 2^32 - 1.
IsArrayIndex(k) ==
  /\ Len(k) >= 1
  /\ Len(k) < 10
  /\ DigitRun(k) = Len(k)
  /\ (Len(k) = 1 \/ Head(k) # "0")

IndexValue(k) == DigitsValue(k, Len(k))

----------------------------------------------------------------------------
(* Objects: the own properties in creation order, as entries [k, v] *)

Has(o, k) == \E i \in 1..Len(o) : o[i].k = k

\* o[k]: undefined when o has no such property
Get(o, k) == IF Has(o, k) THEN o[CHOOSE i \in 1..Len(o) : o[i].k = k].v ELSE Undefined

\* o[k] = v: an existing property keeps its place, a new one is created last
Put(o, k, v) ==
  IF Has(o, k)
    THEN [i \in 1..Len(o) |-> IF o[i].k = k THEN [k |-> k, v |-> v] ELSE o[i]]
    ELSE Append(o, [k |-> k, v |-> v])

\* delete o[k]
Delete(o, k) ==
  LET keep(e) == e.k # k
  IN  SelectSeq(o, keep)

RECURSIVE InsertIndex(_, _)
InsertIndex(sorted, e) ==
  IF sorted = <<>> THEN <<e>>
  ELSE IF IndexValue(e.k) < IndexValue(Head(sorted).k) THEN <<e>> \o sorted
  ELSE <<Head(sorted)>> \o InsertIndex(Tail(sorted), e)

RECURSIVE SortIndex(_, _)
SortIndex(es, k) == IF k = 0 THEN <<>> ELSE InsertIndex(SortIndex(es, k - 1), es[k])

\* the own properties in enumeration order (Object.keys, Object.values,
\* Object.entries): array-index keys ascending, then the others as created
Entries(o) ==
  LET isIdx(e) == IsArrayIndex(e.k)
      notIdx(e) == ~IsArrayIndex(e.k)
      idx == SelectSeq(o, isIdx)
  IN  SortIndex(idx, Len(idx)) \o SelectSeq(o, notIdx)

ObjectValues(o) == [i \in 1..Len(o) |-> Entries(o)[i].v]

ObjectKeys(o) == [i \in 1..Len(o) |-> Entries(o)[i].k]

----------------------------------------------------------------------------
(* Arrays *)

Includes(arr, v) == \E i \in 1..Len(arr) : arr[i] = v

\* [...new Set(arr)]: the distinct values, each at its first occurrence
RECURSIVE Distinct(_, _)
Distinct(arr, k) ==
  IF k = 0 THEN <<>>
  ELSE LET before == Distinct(arr, k - 1)
       IN  IF Includes(before, arr[k]) THEN before ELSE Append(before, arr[k])

UniqueOf(arr) == Distinct(arr, Len(arr))

\* the order of Array.prototype.sort() without a comparator: undefined last,
\* the others by their strings
DefaultLess(a, b) ==
  IF a = Undefined THEN FALSE
  ELSE IF b = Undefined THEN TRUE
  ELSE StrLess(ToStr(a), ToStr(b))

RECURSIVE InsertDefault(_, _)
InsertDefault(sorted, e) ==
  IF sorted = <<>> THEN <<e>>
  ELSE IF DefaultLess(e, Head(sorted)) THEN <<e>> \o sorted
  ELSE <<Head(sorted)>> \o InsertDefault(Tail(sorted), e)

RECURSIVE SortDefaultN(_, _)
SortDefaultN(arr, k) ==
  IF k = 0 THEN <<>> ELSE InsertDefault(SortDefaultN(arr, k - 1), arr[k])

\* arr.sort()
SortDefault(arr) == SortDefaultN(arr, Len(arr))

----------------------------------------------------------------------------
(* The Series Transformer: src/app/page.tsx *)

\* parseFloat(cell) || 0
CoerceOrZero(cell) == Or(ParseFloat(cell), Num(0))

\* `${group}_count`
CountKey(group) == ToStr(group) \o <<"_count">>

\* data.map(row => row[col])
ColumnOf(data, col) == [i \in 1..Len(data) |-> Get(data[i], col)]

\* { [x]: xVal } and then item[group] = 0 for the first k groups
RECURSIVE SeedItem(_, _, _, _)
SeedItem(x, xVal, uniqueGroups, k) ==
  IF k = 0 THEN Put(<<>>, x, xVal)
  ELSE Put(SeedItem(x, xVal, uniqueGroups, k - 1), ToStr(uniqueGroups[k]), Num(0))

\* groupedData after the first k values of uniqueX were initialised
RECURSIVE SeedGrouped(_, _, _, _)
SeedGrouped(x, uniqueX, uniqueGroups, k) ==
  IF k = 0 THEN <<>>
  ELSE Put(SeedGrouped(x, uniqueX, uniqueGroups, k - 1), ToStr(uniqueX[k]),
           SeedItem(x, uniqueX[k], uniqueGroups, Len(uniqueGroups)))

\* a bug AccumulateInto could have: a transform that is none of the three
\* leaves the item as it is
AccumulateInto_NoDefault(item, groupKey, yValue, transform) ==
  LET g == ToStr(groupKey)
  IN  CASE transform = W("sum") -> Put(item, g, NumAdd(Get(item, g), yValue))
        [] transform = W("count") -> Put(item, g, NumAdd(Get(item, g), Num(1)))
        [] OTHER -> item

\* the switch on transform, for one row, on the row's item
AccumulateInto(item, groupKey, yValue, transform) ==
  LET g == ToStr(groupKey)
      c == CountKey(groupKey)
  IN  CASE transform = W("sum") -> Put(item, g, NumAdd(Get(item, g), yValue))
        [] transform = W("average") ->
             LET fresh == IF ~Truthy(Get(item, c))
                            THEN Put(Put(item, c, Num(0)), g, Num(0))
                            ELSE item
                 added == Put(fresh, g, NumAdd(Get(fresh, g), yValue))
             IN  Put(added, c, NumAdd(Get(added, c), Num(1)))
        [] transform = W("count") -> Put(item, g, NumAdd(Get(item, g), Num(1)))
        [] OTHER -> Put(item, g, NumAdd(Get(item, g), yValue))

\* one step of data.forEach: the row is skipped when groupedData has no item
\* for its x value
AccumulateRow(groupedData, row, x, y, groupBy, transform) ==
  LET xValue == Get(row, x)
      groupKey == Get(row, groupBy)
      yValue == CoerceOrZero(Get(row, y))
  IN  IF Has(groupedData, ToStr(xValue))
        THEN Put(groupedData, ToStr(xValue),
                 AccumulateInto(Get(groupedData, ToStr(xValue)), groupKey, yValue,
                                transform))
        ELSE groupedData

RECURSIVE AccumulateRows(_, _, _, _, _, _, _)
AccumulateRows(groupedData, data, x, y, groupBy, transform, k) ==
  IF k = 0 THEN groupedData
  ELSE AccumulateRow(AccumulateRows(groupedData, data, x, y, groupBy, transform, k - 1),
                     data[k], x, y, groupBy, transform)

\* the average pass over one item, for the first k groups
RECURSIVE AverageItem(_, _, _)
AverageItem(item, uniqueGroups, k) ==
  IF k = 0 THEN item
  ELSE LET it == AverageItem(item, uniqueGroups, k - 1)
           g == ToStr(uniqueGroups[k])
           c == CountKey(uniqueGroups[k])
           count == Or(Get(it, c), Num(1))
       IN  Delete(Put(it, g, NumDiv(Get(it, g), count)), c)

\* Object.values(groupedData).forEach(item => ...): every item is changed in place
AverageAll(groupedData, uniqueGroups) ==
  [i \in 1..Len(groupedData) |->
     [k |-> groupedData[i].k,
      v |-> AverageItem(groupedData[i].v, uniqueGroups, Len(uniqueGroups))]]

prepareGroupedData(data, x, y, groupBy, transform) ==
  LET uniqueX == SortDefault(UniqueOf(ColumnOf(data, x)))
      uniqueGroups == UniqueOf(ColumnOf(data, groupBy))
      seeded == SeedGrouped(x, uniqueX, uniqueGroups, Len(uniqueX))
      filled == AccumulateRows(seeded, data, x, y, groupBy, transform, Len(data))
      groupedData == IF transform = W("average")
                       THEN AverageAll(filled, uniqueGroups)
                       ELSE filled
  IN  ObjectValues(groupedData)

\* one step of data.forEach in preparePieData: aggregated[category] is created
\* on the category's first row, then the switch on transform
AggregateRow(aggregated, row, x, y, transform) ==
  LET category == ToStr(Get(row, x))
      value == CoerceOrZero(Get(row, y))
      agg == IF ~Has(aggregated, category)
               THEN Put(aggregated, category, [value |-> Num(0), count |-> Num(0)])
               ELSE aggregated
      cur == Get(agg, category)
  IN  CASE transform = W("sum") ->
             Put(agg, category, [cur EXCEPT !.value = NumAdd(cur.value, value)])
        [] transform = W("average") ->
             Put(agg, category, [value |-> NumAdd(cur.value, value),
                                 count |-> NumAdd(cur.count, Num(1))])
        [] transform = W("count") ->
             Put(agg, category, [cur EXCEPT !.value = NumAdd(cur.value, Num(1))])
        [] OTHER ->
             Put(agg, category, [cur EXCEPT !.value = NumAdd(cur.value, value)])

\* a bug preparePieData could have: aggregated is kept between invocations
\* (a variable of the module instead of a local), so a second invocation
\* starts from the categories of the list the first one returned
RECURSIVE AggregateRows_Kept(_, _, _, _, _)
AggregateRows_Kept(data, x, y, transform, k) ==
  IF k = 0
    THEN (IF rendered = "pie"
            THEN [i \in 1..Len(chartData) |->
                    [k |-> chartData[i].name.s,
                     v |-> [value |-> chartData[i].value, count |-> Num(0)]]]
            ELSE <<>>)
  ELSE AggregateRow(AggregateRows_Kept(data, x, y, transform, k - 1), data[k], x, y,
                    transform)

RECURSIVE AggregateRows(_, _, _, _, _)
AggregateRows(data, x, y, transform, k) ==
  IF k = 0 THEN <<>>
  ELSE AggregateRow(AggregateRows(data, x, y, transform, k - 1), data[k], x, y, transform)

\* a bug PieEntries could have: the total is returned for average as well
PieEntries_Total(aggregated, transform) ==
  LET es == Entries(aggregated)
  IN  [i \in 1..Len(es) |-> [name |-> Str(es[i].k), value |-> es[i].v.value]]

\* Object.entries(aggregated).map(([name, data]) => ({ name, value: ... }))
PieEntries(aggregated, transform) ==
  LET es == Entries(aggregated)
  IN  [i \in 1..Len(es) |->
         [name |-> Str(es[i].k),
          value |-> IF transform = W("average")
                      THEN NumDiv(es[i].v.value, es[i].v.count)
                      ELSE es[i].v.value]]

\* the comparator (a, b) => b.value - a.value as sort reads it: negative, zero
\* or positive, a NaN result counting as zero
PieCompare(a, b) ==
  LET r == NumSub(b.value, a.value)
  IN  IF IsNegative(r) THEN -1 ELSE IF IsPositive(r) THEN 1 ELSE 0

RECURSIVE InsertPie(_, _)
InsertPie(sorted, e) ==
  IF sorted = <<>> THEN <<e>>
  ELSE IF PieCompare(e, Head(sorted)) < 0 THEN <<e>> \o sorted
  ELSE <<Head(sorted)>> \o InsertPie(Tail(sorted), e)

RECURSIVE SortPieN(_, _)
SortPieN(arr, k) == IF k = 0 THEN <<>> ELSE InsertPie(SortPieN(arr, k - 1), arr[k])

\* whether the comparator is a consistent comparator for the values of arr
\* (ECMA-262, Array.prototype.sort); a NaN value among two different numbers
\* makes it inconsistent
ConsistentPieCompare(arr) ==
  \A i, j, k \in 1..Len(arr) :
    /\ (PieCompare(arr[i], arr[j]) = 0 /\ PieCompare(arr[j], arr[k]) = 0
          => PieCompare(arr[i], arr[k]) = 0)
    /\ (PieCompare(arr[i], arr[j]) < 0 /\ PieCompare(arr[j], arr[k]) < 0
          => PieCompare(arr[i], arr[k]) < 0)
    /\ (PieCompare(arr[i], arr[j]) > 0 /\ PieCompare(arr[j], arr[k]) > 0
          => PieCompare(arr[i], arr[k]) > 0)
    /\ (PieCompare(arr[i], arr[j]) < 0 <=> PieCompare(arr[j], arr[i]) > 0)

Permutations1(n) == {p \in [1..n -> 1..n] : \A i, j \in 1..n : p[i] = p[j] => i = j}

\* what arr.sort((a, b) => b.value - a.value) can return: the stable sorted
\* order when the comparator is consistent, and otherwise an order the
\* implementation defines, which is some permutation of arr
SortPieOutcomes(arr) ==
  IF ConsistentPieCompare(arr) THEN {SortPieN(arr, Len(arr))}
  ELSE {[i \in 1..Len(arr) |-> arr[p[i]]] : p \in Permutations1(Len(arr))}

\* the lists preparePieData can return
preparePieData(data, x, y, transform) ==
  SortPieOutcomes(PieEntries(AggregateRows(data, x, y, transform, Len(data)), transform))

\* { ...row }: a new object with row's properties in enumeration order
Spread(row) == Entries(row)

\* isNaN(v)
GlobalIsNaN(v) == IsNaN(ToNumber(v))

\* a bug prepareScatterData could have: the cells are parsed and nothing else
prepareScatterData_Unfiltered(data, x, y) ==
  [i \in 1..Len(data) |->
     Put(Put(Spread(data[i]), x, ParseFloat(Get(data[i], x))),
         y, ParseFloat(Get(data[i], y)))]

prepareScatterData(data, x, y) ==
  LET mapped == [i \in 1..Len(data) |->
                   Put(Put(Spread(data[i]), x, CoerceOrZero(Get(data[i], x))),
                       y, CoerceOrZero(Get(data[i], y)))]
      keep(row) == ~GlobalIsNaN(Get(row, x)) /\ ~GlobalIsNaN(Get(row, y))
  IN  SelectSeq(mapped, keep)

\* a bug PlainData could have: the y cell is parsed and nothing else
PlainData_Parsed(data, y) ==
  [i \in 1..Len(data) |-> Put(Spread(data[i]), y, ParseFloat(Get(data[i], y)))]

\* the single-series branch of renderChart: data.map(row => ({ ...row, [y]: ... }))
PlainData(data, y) ==
  [i \in 1..Len(data) |-> Put(Spread(data[i]), y, CoerceOrZero(Get(data[i], y)))]

----------------------------------------------------------------------------
(* The Column Profiler: the complete callback of handleFileUpload,          *)
(* src/app/page.tsx lines 61-120                                            *)

\* the value of the digits s[i..j]
DigitsAt(s, i, j) == DigitsValue(SubSeq(s, i, j), j - i + 1)

AllDigits(s, I) == \A i \in I : s[i] \in Digits

DaysInMonth(year, month) ==
  IF month = 2
    THEN (IF year % 4 = 0 /\ (year % 100 # 0 \/ year % 400 = 0) THEN 29 ELSE 28)
  ELSE IF month \in {4, 6, 9, 11} THEN 30
  ELSE 31

\* s is a date of the Date Time String Format (ECMA-262): YYYY, YYYY-MM or
\* YYYY-MM-DD with the month and the day in range
IsoDate(s) ==
  \/ Len(s) = 4 /\ AllDigits(s, 1..4)
  \/ /\ Len(s) = 7
     /\ AllDigits(s, {1, 2, 3, 4, 6, 7})
     /\ s[5] = "-"
     /\ DigitsAt(s, 6, 7) \in 1..12
  \/ /\ Len(s) = 10
     /\ AllDigits(s, {1, 2, 3, 4, 6, 7, 9, 10})
     /\ s[5] = "-"
     /\ s[8] = "-"
     /\ DigitsAt(s, 6, 7) \in 1..12
     /\ DigitsAt(s, 9, 10) \in 1..DaysInMonth(DigitsAt(s, 1, 4), DigitsAt(s, 6, 7))

\* whether new Date(s) can be a valid date: it is for a date of the format,
\* it is not for a string without a digit (no implementation reads a date
\* out of it), and for every other string the implementation decides
DateOutcomes(s) ==
  IF IsoDate(s) THEN {TRUE}
  ELSE IF \A i \in 1..Len(s) : s[i] \notin Digits THEN {FALSE}
  ELSE BOOLEAN

\* !isNaN(new Date(value).getTime()), dates being the strings outside the
\* format that this implementation reads as dates
DateValid(value, dates) == IsoDate(value.s) \/ value.s \in dates

\* lines 76-86
getValueType(value, dates) ==
  IF /\ ~IsNaN(ParseFloat(value))
     /\ IsFinite(StringToNumber(value))
     /\ Trim(value.s) # <<>>
    THEN W("numeric")
  ELSE IF DateValid(value, dates) /\ Trim(value.s) # <<>> THEN W("date")
  ELSE W("text")

\* types.reduce((acc, t) => { acc[t] = (acc[t] || 0) + 1; return acc }, {})
RECURSIVE CountTypes(_, _)
CountTypes(types, k) ==
  IF k = 0 THEN <<>>
  ELSE LET acc == CountTypes(types, k - 1)
           t == types[k].s
       IN  Put(acc, t, NumAdd(Or(Get(acc, t), Num(0)), Num(1)))

\* .sort(([,a], [,b]) => b - a): the counts are positive integers, the order
\* is the stable one
RECURSIVE InsertByCount(_, _)
InsertByCount(sorted, e) ==
  IF sorted = <<>> THEN <<e>>
  ELSE IF IsNegative(NumSub(Head(sorted).v, e.v)) THEN <<e>> \o sorted
  ELSE <<Head(sorted)>> \o InsertByCount(Tail(sorted), e)

RECURSIVE SortByCountN(_, _)
SortByCountN(es, k) ==
  IF k = 0 THEN <<>> ELSE InsertByCount(SortByCountN(es, k - 1), es[k])

SortByCount(es) == SortByCountN(es, Len(es))

\* a > b on numbers
NumGt(a, b) == IsPositive(NumSub(a, b))

\* a bug ResolveType could have: half of the values are enough
ResolveType_AtLeastHalf(mostCommonType, count, total) ==
  IF NumGe(NumDiv(count, total), Frac(1, 2)) THEN mostCommonType ELSE W("text")

\* a bug ResolveType could have: the most common type, however common
ResolveType_Plurality(mostCommonType, count, total) == mostCommonType

\* lines 99-103
ResolveType(mostCommonType, count, total) ==
  IF NumGt(NumDiv(count, total), Frac(1, 2)) THEN mostCommonType ELSE W("text")

\* Math.min(...nums), Math.max(...nums) of finite numbers, one at least
RECURSIVE MathMin(_, _)
MathMin(nums, k) ==
  IF k = 1 THEN nums[1]
  ELSE LET m == MathMin(nums, k - 1)
       IN  IF NumGt(m, nums[k]) THEN nums[k] ELSE m

RECURSIVE MathMax(_, _)
MathMax(nums, k) ==
  IF k = 1 THEN nums[1]
  ELSE LET m == MathMax(nums, k - 1)
       IN  IF NumGt(nums[k], m) THEN nums[k] ELSE m

\* a bug Numerics could have: every value is parsed, numeric or not
Numerics_All(values, dates) == [i \in 1..Len(values) |-> ParseFloat(values[i])]

\* values.filter(v => getValueType(v) === 'numeric').map(v => parseFloat(v))
Numerics(values, dates) ==
  LET numeric(v) == getValueType(v, dates) = W("numeric")
      kept == SelectSeq(values, numeric)
  IN  [i \in 1..Len(kept) |-> ParseFloat(kept[i])]

\* data.map(row => row[name]).filter(val => val !== null && val !== undefined
\* && val !== '')
ValuesOf(data, name) ==
  LET present(val) == val # Null /\ val # Undefined /\ val # Str(<<>>)
  IN  SelectSeq(ColumnOf(data, name), present)

\* the ColumnInfo of one column, lines 67-114
ColumnInfo(data, name, dates) ==
  LET values == ValuesOf(data, name)
      types == [i \in 1..Len(values) |-> getValueType(values[i], dates)]
      typeCounts == CountTypes(types, Len(types))
      total == Num(Len(types))
      sortedTypes == SortByCount(Entries(typeCounts))
      type == IF Len(values) > 0
                THEN ResolveType(Str(sortedTypes[1].k), sortedTypes[1].v, total)
                ELSE W("text")
      nums == Numerics(values, dates)
      ranged == Len(values) > 0 /\ type = W("numeric") /\ Len(nums) > 0
  IN  [name |-> Str(name),
       type |-> type,
       min |-> IF ranged THEN MathMin(nums, Len(nums)) ELSE Undefined,
       max |-> IF ranged THEN MathMax(nums, Len(nums)) ELSE Undefined,
       uniqueCount |-> Num(Len(UniqueOf(values)))]

\* columnInfos: one ColumnInfo per key of the first row, lines 65-115
Profile(data, dates) ==
  LET columnNames == ObjectKeys(data[1])
  IN  [i \in 1..Len(columnNames) |-> ColumnInfo(data, columnNames[i], dates)]

----------------------------------------------------------------------------
(* Datasets: rows as the CSV parser (header: true) hands them over.  A row  *)
(* holds one string per field of its line, under the header's names in     *)
(* header order; a line with fewer fields than the header leaves the last  *)
(* columns absent.                                                         *)

MaxRows == 2

MaxGroupedRows == 2

MaxPieRows == 3

MaxScatterRows == 2

MaxPurityRows == 2

MaxInvocations == 2

MaxUploadRows == 3

MaxReuploadRows == 0

Header == <<Str(<<"region">>), Str(<<"month">>), Str(<<"sales">>)>>

\* a header whose first column has the empty name (a CSV written with an
\* unnamed index column)
IndexHeader == <<Str(<<>>), Str(<<"month">>), Str(<<"sales">>)>>

MkRow(header, cells) == [i \in 1..Len(cells) |-> [k |-> header[i].s, v |-> cells[i]]]

\* the rows over the cells G, X, Y of the three columns, short lines included
RowsOver(header, G, X, Y) ==
  {MkRow(header, <<g>>) : g \in G}
    \cup {MkRow(header, <<g, x>>) : g \in G, x \in X}
    \cup {MkRow(header, <<g, x, y>>) : g \in G, x \in X, y \in Y}

\* the datasets of lo..hi rows
Datasets(rows, lo, hi) == UNION {[1..k -> rows] : k \in lo..hi}

ChartTypes == {W("bar"), W("line"), W("pie"), W("scatter"), W("area")}

Transforms == {W("none"), W("sum"), W("average"), W("count")}

\* the validated chart configurations over the header: what a successful
\* response of the generate route holds
ConfigsOver(types, groupBys, transforms, datasets) ==
  [chartType : types, x : {Str(<<"month">>)}, y : {Str(<<"sales">>)},
   groupBy : groupBys, dataTransform : transforms, summary : {W("s")},
   data : datasets]

----------------------------------------------------------------------------
(* renderChart: src/app/page.tsx.  One action per branch it takes; rendered *)
(* names the branch and chartData is the branch's result.                  *)

NoBody == [columns |-> <<>>, data |-> <<>>]

NoText == [kind |-> "pending", value |-> <<>>]

NoResponse == [status |-> 0, json |-> <<>>]

\* the invocations of a transformer so far, each with the specification it
\* was given and the list it returned
Called(spec, output) == calls \cup {[spec |-> spec, output |-> output]}

ServerIdle ==
  /\ body = NoBody
  /\ text = NoText
  /\ response = NoResponse

\* if (!chartConfig) return null
RenderNull ==
  /\ chartConfig = Null
  /\ rendered' = "null"
  /\ UNCHANGED <<body, text, response, chartConfig, chartData, page, calls>>

\* if (!data || data.length === 0) return "No data available"
RenderNoData ==
  /\ chartConfig # Null
  /\ Len(chartConfig.data) = 0
  /\ rendered' = "no data"
  /\ UNCHANGED <<body, text, response, chartConfig, chartData, page, calls>>

RenderPie ==
  /\ chartConfig # Null
  /\ Len(chartConfig.data) # 0
  /\ chartConfig.chartType = W("pie")
  /\ \E out \in preparePieData(chartConfig.data, chartConfig.x.s, chartConfig.y.s,
                               chartConfig.dataTransform) :
       chartData' = out
  /\ rendered' = "pie"
  /\ calls' = Called(chartConfig, chartData')
  /\ UNCHANGED <<body, text, response, chartConfig, page>>

RenderGrouped ==
  /\ chartConfig # Null
  /\ Len(chartConfig.data) # 0
  /\ chartConfig.chartType # W("pie")
  /\ Truthy(chartConfig.groupBy)
  /\ chartData' = prepareGroupedData(chartConfig.data, chartConfig.x.s, chartConfig.y.s,
                                     chartConfig.groupBy.s, chartConfig.dataTransform)
  /\ rendered' = "grouped"
  /\ calls' = Called(chartConfig, chartData')
  /\ UNCHANGED <<body, text, response, chartConfig, page>>

RenderScatter ==
  /\ chartConfig # Null
  /\ Len(chartConfig.data) # 0
  /\ chartConfig.chartType # W("pie")
  /\ ~Truthy(chartConfig.groupBy)
  /\ chartConfig.chartType = W("scatter")
  /\ chartData' = prepareScatterData(chartConfig.data, chartConfig.x.s, chartConfig.y.s)
  /\ rendered' = "scatter"
  /\ calls' = Called(chartConfig, chartData')
  /\ UNCHANGED <<body, text, response, chartConfig, page>>

RenderPlain ==
  /\ chartConfig # Null
  /\ Len(chartConfig.data) # 0
  /\ chartConfig.chartType # W("pie")
  /\ ~Truthy(chartConfig.groupBy)
  /\ chartConfig.chartType # W("scatter")
  /\ chartData' = PlainData(chartConfig.data, chartConfig.y.s)
  /\ rendered' = "plain"
  /\ calls' = Called(chartConfig, chartData')
  /\ UNCHANGED <<body, text, response, chartConfig, page>>

\* no file was parsed yet
NoResults == [fields |-> <<>>, data |-> <<>>, dates |-> {}, parsed |-> FALSE]

\* the page as useState initialises it (lines 45-53), handleSubmit not running
PageIdle ==
  /\ columns = <<>>
  /\ fullData = <<>>
  /\ sampleData = <<>>
  /\ objective = Str(<<>>)
  /\ loading = FALSE
  /\ error = Null
  /\ showModal = FALSE
  /\ pc = "idle"
  /\ results = NoResults

\* the page before its first render of the chart
Unrendered ==
  /\ chartData = <<>>
  /\ rendered = "pending"
  /\ calls = {}

RenderRows ==
  RowsOver(Header, {W("a")}, {W("9"), W("b")}, {W("2"), W("b"), Str(<<>>)})

InitRender ==
  /\ ServerIdle
  /\ PageIdle
  /\ Unrendered
  /\ chartConfig \in {Null}
       \cup ConfigsOver(ChartTypes, {Null, Str(<<"region">>)}, Transforms,
                        Datasets(RenderRows, 0, MaxRows))

NextRender ==
  \/ RenderNull
  \/ RenderNoData
  \/ RenderPie
  \/ RenderGrouped
  \/ RenderScatter
  \/ RenderPlain

SpecRender == InitRender /\ [][NextRender]_vars

\* prepareGroupedData over rows whose x values are array indices ("10" sorts
\* before "9" as a string, after it as an index) and whose group names
\* include one that is another followed by "_count"
GroupedRows ==
  RowsOver(Header, {W("a"), W("b"), Str(<<"a", "_count">>)},
           {Str(<<"1", "0">>), W("9")}, {W("2"), W("5")})

InitGrouped ==
  /\ ServerIdle
  /\ PageIdle
  /\ Unrendered
  /\ chartConfig \in ConfigsOver({W("bar"), W("line"), W("area")}, {Str(<<"region">>)},
                                 Transforms, Datasets(GroupedRows, 1, MaxGroupedRows))

SpecGrouped == InitGrouped /\ [][RenderGrouped]_vars

PieRows ==
  RowsOver(Header, {W("a")}, {Str(<<"1", "0">>), W("9")},
           {W("2"), W("Infinity"), Str(<<"-", "Infinity">>)})

InitPie ==
  /\ ServerIdle
  /\ PageIdle
  /\ Unrendered
  /\ chartConfig \in ConfigsOver({W("pie")}, {Null, Str(<<"region">>)}, Transforms,
                                 Datasets(PieRows, 1, MaxPieRows))

SpecPie == InitPie /\ [][RenderPie]_vars

ScatterRows ==
  RowsOver(Header, {W("a")}, {Str(<<"1", "0">>), W("b"), Str(<<>>)},
           {W("2"), W("b"), W("Infinity")})

InitScatter ==
  /\ ServerIdle
  /\ PageIdle
  /\ Unrendered
  /\ chartConfig \in ConfigsOver({W("scatter")}, {Null}, Transforms,
                                 Datasets(ScatterRows, 1, MaxScatterRows))

SpecScatter == InitScatter /\ [][RenderScatter]_vars

\* The transformer invoked again and again while the chart specification
\* changes over the same rows.  chartConfig is replaced by setChartConfig
\* (line 164) with the result of a later submission; the rows a result
\* echoes are those of the upload, so they stay.  renderChart starts every
\* run with an empty chartData (line 450).
PurityRows ==
  {MkRow(Header, <<W("a"), W("9"), W("2")>>),
   MkRow(Header, <<W("b"), W("9"), W("5")>>),
   MkRow(Header, <<W("a")>>)}

PurityConfigs(datasets) ==
  ConfigsOver({W("bar"), W("pie"), W("scatter")}, {Null, Str(<<"region">>)},
              {W("sum"), W("average")}, datasets)

Respecified ==
  /\ chartConfig # Null
  /\ \E c \in PurityConfigs({chartConfig.data}) :
       /\ c # chartConfig
       /\ (Cardinality(calls) < MaxInvocations \/ \E call \in calls : call.spec = c)
       /\ chartConfig' = c
  /\ chartData' = <<>>
  /\ rendered' = "pending"
  /\ UNCHANGED <<body, text, response, page, calls>>

InitPurity ==
  /\ ServerIdle
  /\ PageIdle
  /\ Unrendered
  /\ chartConfig \in PurityConfigs(Datasets(PurityRows, 1, MaxPurityRows))

NextPurity ==
  \/ RenderPie
  \/ RenderGrouped
  \/ RenderScatter
  \/ RenderPlain
  \/ Respecified

SpecPurity == InitPurity /\ [][NextPurity]_vars

----------------------------------------------------------------------------
(* handleFileUpload: src/app/page.tsx.  The parser hands over the fields of *)
(* the header line and one row per line after it; a file of the header     *)
(* line alone gives the fields and no row.                                  *)

\* the cells of the last column: two numbers (one of them also a year of the
\* date format), a text, a date, a string that parseFloat reads and Number
\* does not, and the empty cell
UploadCells ==
  {W("9"), Str(<<"2", "0", "2", "0">>), W("a"),
   Str(<<"2", "0", "2", "0", "-", "0", "1", "-", "0", "9">>),
   Str(<<"9", "-", "a">>), Str(<<>>)}

UploadRows ==
  {MkRow(Header, <<W("a"), W("9")>>)}
    \cup {MkRow(Header, <<W("a"), W("9"), c>>) : c \in UploadCells}

\* the cells of data
CellsOf(data) == UNION {{data[i][j].v : j \in 1..Len(data[i])} : i \in 1..Len(data)}

\* the strings of data on which implementations differ in new Date(value)
Ambiguous(data) == {c.s : c \in {v \in CellsOf(data) : DateOutcomes(v.s) = BOOLEAN}}

\* slice(0, 5)
Slice5(data) == SubSeq(data, 1, IF Len(data) < 5 THEN Len(data) ELSE 5)

\* the complete callback, lines 61-120: nothing is set for a file without rows
handleFileUpload ==
  /\ \E data \in Datasets(UploadRows, 0, MaxUploadRows) :
       /\ results.parsed => Len(data) <= MaxReuploadRows
       /\ \E dates \in SUBSET Ambiguous(data) :
            /\ results' = [fields |-> Header, data |-> data, dates |-> dates,
                           parsed |-> TRUE]
            /\ IF Len(data) = 0
                 THEN UNCHANGED <<columns, fullData, sampleData>>
                 ELSE /\ columns' = Profile(data, dates)
                      /\ fullData' = data
                      /\ sampleData' = Slice5(data)
  /\ UNCHANGED <<body, text, response, chartConfig, chartData, rendered, calls,
                 objective, loading, error, showModal, pc>>

InitUpload ==
  /\ ServerIdle
  /\ PageIdle
  /\ Unrendered
  /\ chartConfig = Null

SpecUpload == InitUpload /\ [][handleFileUpload]_vars

----------------------------------------------------------------------------
(* POST: src/app/api/generate/route.ts.  body is the request the page      *)
(* sends (columns, data; the prompt built from the rest is read by the     *)
(* oracle alone).  text is the oracle's answer by what lines 83-96 make of *)
(* it: the call threw ("error"); the text, its ```json fences removed, is  *)
(* no JSON ("invalid"); or JSON.parse returns value, a primitive (null, a  *)
(* number, a string, a boolean) or an object (an array is an object with   *)
(* none of the fields).                                                    *)

requiredFields == <<<<"chartType">>, <<"x">>, <<"y">>, <<"summary">>>>

validChartTypes == <<W("bar"), W("line"), W("pie"), W("scatter"), W("area")>>

validTransforms == <<W("none"), W("sum"), W("average"), W("count")>>

\* NextResponse.json({ error }, { status: 500 })
ErrorResponse(message) ==
  [status |-> 500, json |-> <<[k |-> <<"error">>, v |-> Str(message)]>>]

\* the first required field that is not in chartConfig, or <<>>
RECURSIVE FirstMissing(_, _)
FirstMissing(cfg, k) ==
  IF k > Len(requiredFields) THEN <<>>
  ELSE IF ~Has(cfg, requiredFields[k]) THEN requiredFields[k]
  ELSE FirstMissing(cfg, k + 1)

\* a bug RepairGroupBy could have: the unknown groupBy is kept
RepairGroupBy_Kept(cols, groupBy) == groupBy

\* chartConfig.groupBy after lines 118-120
RepairGroupBy(cols, groupBy) ==
  IF Truthy(groupBy) /\ ~Includes(cols, groupBy) THEN Null ELSE groupBy

\* chartConfig.dataTransform after lines 123-125
RepairTransform(dataTransform) ==
  IF ~Truthy(dataTransform) \/ ~Includes(validTransforms, dataTransform)
    THEN W("none") ELSE dataTransform

\* a bug SuccessResponse could have: the rows are not echoed
SuccessResponse_NoRows(chartType, x, y, groupBy, dataTransform, summary, data) ==
  [status |-> 200,
   json |-> <<[k |-> <<"chartType">>, v |-> chartType],
              [k |-> <<"x">>, v |-> x],
              [k |-> <<"y">>, v |-> y],
              [k |-> <<"groupBy">>, v |-> Or(groupBy, Null)],
              [k |-> <<"dataTransform">>, v |-> dataTransform],
              [k |-> <<"summary">>, v |-> summary]>>]

\* NextResponse.json({ chartType, x, y, groupBy: groupBy || null, ... }), lines 127-135
SuccessResponse(chartType, x, y, groupBy, dataTransform, summary, data) ==
  [status |-> 200,
   json |-> <<[k |-> <<"chartType">>, v |-> chartType],
              [k |-> <<"x">>, v |-> x],
              [k |-> <<"y">>, v |-> y],
              [k |-> <<"groupBy">>, v |-> Or(groupBy, Null)],
              [k |-> <<"dataTransform">>, v |-> dataTransform],
              [k |-> <<"summary">>, v |-> summary],
              [k |-> <<"data">>, v |-> data]>>]

\* lines 98-135: the checks on the parsed chartConfig, then the response
Validate(cols, data, cfg) ==
  LET missing == FirstMissing(cfg, 1)
      chartType == Get(cfg, <<"chartType">>)
      x == Get(cfg, <<"x">>)
      y == Get(cfg, <<"y">>)
      groupBy == RepairGroupBy(cols, Get(cfg, <<"groupBy">>))
      dataTransform == RepairTransform(Get(cfg, <<"dataTransform">>))
  IN  IF missing # <<>>
        THEN ErrorResponse(<<"Missing required field: ">> \o missing)
      ELSE IF ~Includes(validChartTypes, chartType)
        THEN ErrorResponse(<<"Invalid chart type: ">> \o ToStr(chartType))
      ELSE IF ~Includes(cols, x) \/ ~Includes(cols, y)
        THEN ErrorResponse(<<"Selected columns not found in dataset">>)
      ELSE SuccessResponse(chartType, x, y, groupBy, dataTransform,
                           Get(cfg, <<"summary">>), data)

\* the whole handler, for the oracle's answer t
Respond(b, t) ==
  CASE t.kind = "error" -> ErrorResponse(<<"Internal server error">>)
    [] t.kind = "invalid" -> ErrorResponse(<<"Failed to parse AI response">>)
    [] t.kind = "primitive" ->
         \* (field in chartConfig) throws a TypeError, caught by the outer catch
         ErrorResponse(<<"Internal server error">>)
    [] t.kind = "object" -> Validate(b.columns, b.data, t.value)

\* the object with the properties of f that are not absent, in the order of keys
Absent == [t |-> "absent", s |-> <<>>, n |-> 0, d |-> 1]

RECURSIVE ObjectOf(_, _, _)
ObjectOf(f, keys, k) ==
  IF k = 0 THEN <<>>
  ELSE IF f[keys[k]] = Absent THEN ObjectOf(f, keys, k - 1)
  ELSE Append(ObjectOf(f, keys, k - 1), [k |-> <<keys[k]>>, v |-> f[keys[k]]])

ProposalKeys == <<"chartType", "x", "y", "groupBy", "dataTransform", "summary">>

\* what the oracle may propose: every field absent, valid or invalid
Proposals ==
  {ObjectOf(f, ProposalKeys, Len(ProposalKeys)) :
     f \in [chartType : {Absent, W("donut")} \cup ChartTypes,
            x : {Absent, Str(<<"month">>), W("nope")},
            y : {Absent, Str(<<"sales">>), W("nope")},
            groupBy : {Absent, Null, Str(<<>>), Str(<<"region">>), W("nope")},
            dataTransform : {Absent, W("median")} \cup Transforms,
            summary : {Absent, W("s")}]}

OracleTexts ==
  {[kind |-> "error", value |-> <<>>],
   [kind |-> "invalid", value |-> <<>>],
   [kind |-> "primitive", value |-> <<>>]}
    \cup [kind : {"object"}, value : Proposals]

POST ==
  /\ response = NoResponse
  /\ \E t \in OracleTexts :
       /\ text' = t
       /\ response' = Respond(body, t)
  /\ UNCHANGED <<body, chartConfig, chartData, rendered, page, calls>>

PostRows(header) == {MkRow(header, <<W("a"), W("9"), W("2")>>), MkRow(header, <<W("b")>>)}

\* the requests: nothing uploaded yet, or a dataset under either header
Bodies ==
  {NoBody}
    \cup {[columns |-> h, data |-> d] :
            h \in {Header}, d \in Datasets(PostRows(Header), 1, MaxRows)}
    \cup {[columns |-> h, data |-> d] :
            h \in {IndexHeader}, d \in Datasets(PostRows(IndexHeader), 1, MaxRows)}

InitPOST ==
  /\ body \in Bodies
  /\ text = NoText
  /\ response = NoResponse
  /\ chartConfig = Null
  /\ PageIdle
  /\ Unrendered

SpecPOST == InitPOST /\ [][POST]_vars

----------------------------------------------------------------------------
(* handleSubmit: src/app/page.tsx lines 128-176.  pc is the await the run  *)
(* is suspended at: "fetch" (line 153), "json" (line 162 or 167), or       *)
(* "idle" when no run is under way.  The statements between two awaits run *)
(* as one step, and React applies the state they set together.             *)

\* the result of a success as the page holds it: the fields of ChartConfig
ConfigOf(json) ==
  [chartType |-> Get(json, <<"chartType">>), x |-> Get(json, <<"x">>),
   y |-> Get(json, <<"y">>), groupBy |-> Get(json, <<"groupBy">>),
   dataTransform |-> Get(json, <<"dataTransform">>),
   summary |-> Get(json, <<"summary">>), data |-> Get(json, <<"data">>)]

\* an answer that does not come from the route (a proxy's): a JSON object
\* without an error
GatewayError == [status |-> 502, json |-> <<>>]

\* what fetch can resolve to for the request b
ServerResponses(b) == {Respond(b, t) : t \in OracleTexts} \cup {GatewayError}

\* columns.map(col => col.name)
ColumnNames == [i \in 1..Len(columns) |-> columns[i].name]

\* onChange of the objective
setObjective ==
  /\ \E o \in {Str(<<>>), Str(<<" ">>), W("o")} :
       /\ o # objective
       /\ objective' = o
  /\ UNCHANGED <<body, text, response, chartConfig, chartData, rendered, calls,
                 columns, fullData, sampleData, loading, error, showModal, pc, results>>

\* onClick of the modal's close buttons: setShowModal(false)
closeModal ==
  /\ showModal
  /\ showModal' = FALSE
  /\ UNCHANGED <<body, text, response, chartConfig, chartData, rendered, calls,
                 columns, fullData, sampleData, objective, loading, error, pc, results>>

\* the button is not disabled (line 321)
CanSubmit ==
  /\ Len(columns) # 0
  /\ Trim(objective.s) # <<>>
  /\ ~loading

\* a bug handleSubmit could have: the chart of the last run is not cleared
handleSubmit_KeepsChart ==
  /\ CanSubmit
  /\ pc = "idle"
  /\ loading' = TRUE
  /\ error' = Null
  /\ body' = [columns |-> ColumnNames, data |-> fullData]
  /\ response' = NoResponse
  /\ pc' = "fetch"
  /\ UNCHANGED <<text, chartConfig, chartData, rendered, calls, columns, fullData,
                 sampleData, objective, showModal, results>>

\* lines 129-159: up to the await of fetch
handleSubmit ==
  /\ CanSubmit
  /\ pc = "idle"
  /\ loading' = TRUE
  /\ error' = Null
  /\ chartConfig' = Null
  /\ body' = [columns |-> ColumnNames, data |-> fullData]
  /\ response' = NoResponse
  /\ pc' = "fetch"
  /\ UNCHANGED <<text, chartData, rendered, calls, columns, fullData, sampleData,
                 objective, showModal, results>>

\* fetch resolves: line 161 reads response.ok and the run awaits response.json()
FetchResolves ==
  /\ pc = "fetch"
  /\ \E r \in ServerResponses(body) : response' = r
  /\ pc' = "json"
  /\ UNCHANGED <<body, text, chartConfig, chartData, rendered, calls, columns,
                 fullData, sampleData, objective, loading, error, showModal, results>>

\* fetch or response.json() rejects: the catch (lines 170-172), then finally
RunThrows ==
  /\ pc \in {"fetch", "json"}
  /\ error' = Str(<<"Network error occurred">>)
  /\ loading' = FALSE
  /\ pc' = "idle"
  /\ UNCHANGED <<body, text, response, chartConfig, chartData, rendered, calls,
                 columns, fullData, sampleData, objective, showModal, results>>

\* response.json() resolves: lines 162-165 or 167-168, then finally
JsonResolves ==
  /\ pc = "json"
  /\ IF response.status = 200
       THEN /\ chartConfig' = ConfigOf(response.json)
            /\ showModal' = TRUE
            /\ UNCHANGED error
       ELSE /\ error' = Or(Get(response.json, <<"error">>),
                            Str(<<"Failed to generate chart">>))
            /\ UNCHANGED <<chartConfig, showModal>>
  /\ loading' = FALSE
  /\ pc' = "idle"
  /\ UNCHANGED <<body, text, response, chartData, rendered, calls, columns,
                 fullData, sampleData, objective, results>>

\* the page after a file with rows was uploaded
InitSubmit ==
  /\ ServerIdle
  /\ Unrendered
  /\ chartConfig = Null
  /\ objective = Str(<<>>)
  /\ loading = FALSE
  /\ error = Null
  /\ showModal = FALSE
  /\ pc = "idle"
  /\ \E data \in Datasets(PostRows(Header), 1, MaxRows) :
       /\ results = [fields |-> Header, data |-> data, dates |-> {}, parsed |-> TRUE]
       /\ columns = Profile(data, {})
       /\ fullData = data
       /\ sampleData = Slice5(data)

NextSubmit ==
  \/ setObjective
  \/ closeModal
  \/ handleSubmit
  \/ FetchResolves
  \/ RunThrows
  \/ JsonResolves

SpecSubmit == InitSubmit /\ [][NextSubmit]_vars

----------------------------------------------------------------------------
(* Claims about the generate route, checked under SpecPOST *)

Answered == response # NoResponse

Succeeded == response.status = 200

\* the value the oracle proposed for a field (undefined when absent), and the
\* value the response returns for it
Proposed(field) == Get(text.value, <<field>>)

Returned(field) == Get(response.json, <<field>>)

InColumns(v) == \E i \in 1..Len(body.columns) : body.columns[i] = v

\* the post-validation invariant of a chart specification
PostValidation ==
  /\ Returned("chartType") \in ChartTypes
  /\ InColumns(Returned("x"))
  /\ InColumns(Returned("y"))
  /\ (Returned("groupBy") = Null \/ InColumns(Returned("groupBy")))
  /\ Returned("dataTransform") \in Transforms

\* C1: every chart specification a successful request returns has a chartType
\* of the five, x and y among the request's columns, groupBy null or among the
\* columns, and a dataTransform of the four, whatever the oracle proposed.
C1_PostValidationInvariant == Succeeded => PostValidation

\* C1's case: a request succeeded although the oracle proposed an unknown
\* groupBy and an unknown dataTransform
C1_Witness ==
  /\ Succeeded
  /\ Proposed("groupBy") = W("nope")
  /\ Proposed("dataTransform") = W("median")

\* the reason of a failure: the constant part of its message
Reason == Head(Returned("error").s)

MissingField == "Missing required field: "

InvalidEnum == "Invalid chart type: "

UnknownColumn == "Selected columns not found in dataset"

\* the proposal was parsed (it is JSON), and has the field
Parsed == text.kind \in {"object", "primitive"}

Present(field) == text.kind = "object" /\ Has(text.value, <<field>>)

AllRequired == Present("chartType") /\ Present("x") /\ Present("y") /\ Present("summary")

\* C2: the hard checks run in the order required fields, chartType, x/y, and
\* the rejection names the first that fails; the three reasons differ.
C2_FirstFailingCheck ==
  Answered /\ Parsed =>
    /\ (~AllRequired => ~Succeeded /\ Reason = MissingField)
    /\ (AllRequired /\ Proposed("chartType") \notin ChartTypes
          => ~Succeeded /\ Reason = InvalidEnum)
    /\ (AllRequired /\ Proposed("chartType") \in ChartTypes
          /\ ~(InColumns(Proposed("x")) /\ InColumns(Proposed("y")))
          => ~Succeeded /\ Reason = UnknownColumn)
    /\ MissingField # InvalidEnum
    /\ MissingField # UnknownColumn
    /\ InvalidEnum # UnknownColumn

ResponseKeys == {response.json[i].k : i \in 1..Len(response.json)}

SpecificationKeys ==
  {<<"chartType">>, <<"x">>, <<"y">>, <<"groupBy">>, <<"dataTransform">>, <<"summary">>}

\* C3: a request ends in success, with a validated chart specification and
\* the request's rows as they were sent, or in failure, with a reason and no
\* field of a chart specification and no rows; nothing in between.
C3_SuccessOrFailure ==
  Answered =>
    \/ /\ Succeeded
       /\ ResponseKeys = SpecificationKeys \cup {<<"data">>}
       /\ Len(response.json) = Cardinality(ResponseKeys)
       /\ PostValidation
       /\ Returned("data") = body.data
    \/ /\ response.status = 500
       /\ ResponseKeys = {<<"error">>}
       /\ Len(response.json) = 1

\* C3's case: a success that echoes two rows
C3_Witness == Succeeded /\ Len(body.data) = 2 /\ Returned("data") = body.data

\* C3's other case: a failure
C3_FailureReached == Answered /\ response.status = 500

PassesHardChecks ==
  /\ AllRequired
  /\ Proposed("chartType") \in ChartTypes
  /\ InColumns(Proposed("x"))
  /\ InColumns(Proposed("y"))

\* C4: once the hard checks pass the request succeeds; an unknown non-null
\* groupBy comes back null and an absent or unknown dataTransform comes back
\* none, while a groupBy naming a column and a dataTransform of the four come
\* back unchanged.
C4_RecoverableFields ==
  Answered /\ PassesHardChecks =>
    /\ Succeeded
    /\ (Proposed("groupBy") # Null /\ ~InColumns(Proposed("groupBy"))
          => Returned("groupBy") = Null)
    /\ (Proposed("dataTransform") \notin Transforms
          => Returned("dataTransform") = W("none"))
    /\ (InColumns(Proposed("groupBy")) => Returned("groupBy") = Proposed("groupBy"))
    /\ (Proposed("dataTransform") \in Transforms
          => Returned("dataTransform") = Proposed("dataTransform"))

----------------------------------------------------------------------------
(* Claims about the Series Transformer *)

Strategies == {"pie", "grouped", "scatter", "plain"}

\* C5: the strategy follows from (chartType, groupBy): pie for pie, scatter
\* for scatter, and for bar, line and area grouped when groupBy is not null
\* and plain when it is; scatter with a groupBy is still scatter.
\* Checked under SpecRender.
C5_StrategyByTypeAndGroup ==
  rendered \in Strategies =>
    rendered = (IF chartConfig.chartType = W("pie") THEN "pie"
                ELSE IF chartConfig.chartType = W("scatter") THEN "scatter"
                ELSE IF chartConfig.groupBy # Null THEN "grouped"
                ELSE "plain")

\* the x fields of the records of chartData, in output order
XFields == [i \in 1..Len(chartData) |-> Get(chartData[i], chartConfig.x.s)]

\* the distinct x values of the input, at their first occurrence
DistinctX == UniqueOf(ColumnOf(chartConfig.data, chartConfig.x.s))

DistinctGroups == UniqueOf(ColumnOf(chartConfig.data, chartConfig.groupBy.s))

\* C6: the grouped strategy returns one record per distinct x value, and the
\* x fields in output order are the distinct x values sorted
\* lexicographically.  Checked under SpecGrouped.
C6_OneRecordPerSortedX ==
  rendered = "grouped" =>
    /\ Len(chartData) = Len(DistinctX)
    /\ \A i \in 1..Len(DistinctX) :
         Cardinality({j \in 1..Len(XFields) : XFields[j] = DistinctX[i]}) = 1
    /\ \A j \in 1..Len(XFields) - 1 : ~DefaultLess(XFields[j + 1], XFields[j])

\* the rows of the input with x value xv and group value gv
Matching(xv, gv) ==
  {i \in 1..Len(chartConfig.data) :
     /\ Get(chartConfig.data[i], chartConfig.x.s) = xv
     /\ Get(chartConfig.data[i], chartConfig.groupBy.s) = gv}

\* the sum of the coerced y values of the rows of I among the first k rows
RECURSIVE SumOfY(_, _)
SumOfY(I, k) ==
  IF k = 0 THEN Num(0)
  ELSE IF k \in I
    THEN NumAdd(SumOfY(I, k - 1),
                CoerceOrZero(Get(chartConfig.data[k], chartConfig.y.s)))
  ELSE SumOfY(I, k - 1)

\* the value the output gives the cell (xv, gv) is v
CellIs(xv, gv, v) ==
  \E j \in 1..Len(chartData) :
    /\ XFields[j] = xv
    /\ Get(chartData[j], ToStr(gv)) = v

\* C7: with average, every (x value, group value) cell that has a matching
\* row holds (sum of the coerced y values of its rows) / (number of its
\* rows), whatever the group names are.  Checked under SpecGrouped.
C7_AverageIsSumOverCount ==
  rendered = "grouped" /\ chartConfig.dataTransform = W("average") =>
    \A i \in 1..Len(DistinctX), g \in 1..Len(DistinctGroups) :
      LET I == Matching(DistinctX[i], DistinctGroups[g])
      IN  I # {} =>
            CellIs(DistinctX[i], DistinctGroups[g],
                   NumDiv(SumOfY(I, Len(chartConfig.data)), Num(Cardinality(I))))

\* C8: the list the pie strategy returns is sorted non-increasing by value.
\* Checked under SpecPie.
C8_PieSortedNonIncreasing ==
  rendered = "pie" =>
    \A i \in 1..Len(chartData) - 1 : NumGe(chartData[i].value, chartData[i + 1].value)

IsRealNumber(v) == IsNumber(v) /\ ~IsNaN(v)

\* C9: the scatter strategy returns no record whose x or y is not-a-number,
\* and no more records than there are input rows.  Checked under SpecScatter.
C9_ScatterNoNaN ==
  rendered = "scatter" =>
    /\ Len(chartData) <= Len(chartConfig.data)
    /\ \A i \in 1..Len(chartData) :
         /\ IsRealNumber(Get(chartData[i], chartConfig.x.s))
         /\ IsRealNumber(Get(chartData[i], chartConfig.y.s))

\* the x or y cell of the row does not parse as a number
FailsParsing(row) ==
  \/ IsNaN(ParseFloat(Get(row, chartConfig.x.s)))
  \/ IsNaN(ParseFloat(Get(row, chartConfig.y.s)))

\* C9's case: scatter ran on rows of which one has a cell that does not parse
C9_Witness ==
  /\ rendered = "scatter"
  /\ Len(chartData) > 0
  /\ \E i \in 1..Len(chartConfig.data) : FailsParsing(chartConfig.data[i])

\* the rows of the input whose x and y cells both parse, with both as numbers
ParsedRows ==
  LET parses(row) == ~FailsParsing(row)
      kept == SelectSeq(chartConfig.data, parses)
  IN  [i \in 1..Len(kept) |->
         Put(Put(Spread(kept[i]), chartConfig.x.s,
                 ParseFloat(Get(kept[i], chartConfig.x.s))),
             chartConfig.y.s, ParseFloat(Get(kept[i], chartConfig.y.s)))]

\* C10: scatter leaves out a row whose x or y cell fails to parse, instead of
\* returning it with that coordinate 0.  Checked under SpecScatter.
C10_ScatterDropsUnparseable == rendered = "scatter" => chartData = ParsedRows

----------------------------------------------------------------------------
(* Claims about the transformer as a function *)

\* every invocation with the same rows and specification returned the same list
SameOutputs == \A c1, c2 \in calls : c1.spec = c2.spec => c1.output = c2.output

----------------------------------------------------------------------------
(* Claims about the Column Profiler, checked under SpecUpload *)

\* the last file had rows, so columns is what the profiler made of them
Profiled == results.parsed /\ Len(results.data) > 0

\* the non-empty values of the column that columns[i] describes
ValuesIn(i) == ValuesOf(results.data, columns[i].name.s)

\* the classes of a value: a finite number; a valid date that is no number;
\* text otherwise
ParsesAsNumber(v) ==
  /\ Trim(v.s) # <<>>
  /\ IsFinite(StringToNumber(v))
  /\ ~IsNaN(ParseFloat(v))

ClassOf(v) ==
  IF ParsesAsNumber(v) THEN W("numeric")
  ELSE IF Trim(v.s) # <<>> /\ DateValid(v, results.dates) THEN W("date")
  ELSE W("text")

ColumnTypes == {W("numeric"), W("date"), W("text")}

\* how many of the non-empty values of column i are of class T
CountOf(i, T) ==
  Cardinality({j \in 1..Len(ValuesIn(i)) : ClassOf(ValuesIn(i)[j]) = T})

\* C12 as stated: a column of which at least half of the non-empty values
\* are numbers, exactly half included, has type numeric.
C12_HalfIsNumeric ==
  Profiled =>
    \A i \in 1..Len(columns) :
      Len(ValuesIn(i)) > 0 /\ 2 * CountOf(i, W("numeric")) >= Len(ValuesIn(i))
        => columns[i].type = W("numeric")

\* C12 amended: a column of which more than half of the non-empty values are
\* numbers has type numeric, and one of which exactly half are has type text.
C12_MajorityIsNumeric ==
  Profiled =>
    \A i \in 1..Len(columns) :
      /\ 2 * CountOf(i, W("numeric")) > Len(ValuesIn(i))
           => columns[i].type = W("numeric")
      /\ Len(ValuesIn(i)) > 0 /\ 2 * CountOf(i, W("numeric")) = Len(ValuesIn(i))
           => columns[i].type = W("text")

\* C12's case: a numeric column that holds a value that is no number
C12_Witness ==
  /\ Profiled
  /\ \E i \in 1..Len(columns) :
       /\ columns[i].type = W("numeric")
       /\ CountOf(i, W("numeric")) < Len(ValuesIn(i))

\* C13: a column has type T only when the values of class T are more than
\* half of its non-empty values, and has type text when no class is more
\* than half; a value that is a number is of class numeric even when it is
\* a date as well.
C13_StrictMajorityOrText ==
  Profiled =>
    \A i \in 1..Len(columns) :
      LET majority(T) == 2 * CountOf(i, T) > Len(ValuesIn(i))
      IN  \/ majority(columns[i].type)
          \/ /\ columns[i].type = W("text")
             /\ \A T \in ColumnTypes : ~majority(T)

\* C13's cases: a column of one number, one date and one text, and a column
\* of dates with one text
C13_Witness ==
  /\ Profiled
  /\ \E i \in 1..Len(columns) :
       /\ \A T \in ColumnTypes : CountOf(i, T) = 1
       /\ columns[i].type = W("text")

C13_DateColumnReached ==
  /\ Profiled
  /\ \E i \in 1..Len(columns) :
       /\ columns[i].type = W("date")
       /\ CountOf(i, W("text")) = 1

\* the numbers of the values of column i that are of class numeric
NumbersIn(i) ==
  {StringToNumber(ValuesIn(i)[j]) :
     j \in {k \in 1..Len(ValuesIn(i)) : ClassOf(ValuesIn(i)[k]) = W("numeric")}}

\* C14: min and max are both present when the type is numeric and a numeric
\* value was seen, and both absent otherwise; when present they are the least
\* and the greatest of the values that are numbers, so min <= max.
C14_RangeIffNumeric ==
  Profiled =>
    \A i \in 1..Len(columns) :
      LET c == columns[i]
          present == c.min # Undefined
      IN  /\ present <=> c.max # Undefined
          /\ present <=> (c.type = W("numeric") /\ NumbersIn(i) # {})
          /\ present =>
               /\ c.min \in NumbersIn(i)
               /\ c.max \in NumbersIn(i)
               /\ \A n \in NumbersIn(i) : NumGe(n, c.min) /\ NumGe(c.max, n)
               /\ NumGe(c.max, c.min)

\* C14's case: a numeric column with two different numbers and a value that
\* is no number
C14_Witness ==
  /\ Profiled
  /\ \E i \in 1..Len(columns) :
       /\ columns[i].min # Undefined
       /\ columns[i].min # columns[i].max
       /\ CountOf(i, W("numeric")) < Len(ValuesIn(i))

\* C15: after every upload, one of a file without rows included, columns
\* holds one record per field of the file, in the order of the fields; for a
\* file without rows every record has uniqueCount 0, type text and no min or
\* max, whatever an earlier upload left.
C15_OneRecordPerColumn ==
  results.parsed =>
    /\ Len(columns) = Len(results.fields)
    /\ \A i \in 1..Len(columns) : columns[i].name = results.fields[i]
    /\ Len(results.data) = 0 =>
         \A i \in 1..Len(columns) :
           /\ columns[i].uniqueCount = Num(0)
           /\ columns[i].type = W("text")
           /\ columns[i].min = Undefined
           /\ columns[i].max = Undefined

----------------------------------------------------------------------------
(* More claims about the Series Transformer *)

KeysOf(record) == {record[i].k : i \in 1..Len(record)}

GroupFields == {ToStr(DistinctGroups[g]) : g \in 1..Len(DistinctGroups)}

\* C16: every record of the grouped strategy has the x field, holding an x
\* value of the input, and one field per distinct group value of the whole
\* input, holding a number, and no other field (no <group>_count); a cell
\* without a matching row holds 0.  This for every dataTransform and also
\* when a group is named as another group followed by "_count".
\* Checked under SpecGrouped.
C16_GroupedRecordFields ==
  rendered = "grouped" =>
    \A j \in 1..Len(chartData) :
      /\ KeysOf(chartData[j]) = {chartConfig.x.s} \cup GroupFields
      /\ Len(chartData[j]) = Cardinality(KeysOf(chartData[j]))
      /\ Includes(DistinctX, XFields[j])
      /\ \A g \in 1..Len(DistinctGroups) :
           /\ IsRealNumber(Get(chartData[j], ToStr(DistinctGroups[g])))
           /\ Matching(XFields[j], DistinctGroups[g]) = {}
                => Get(chartData[j], ToStr(DistinctGroups[g])) = Num(0)

\* what sum and count give a cell with the rows I
CellValue(I, transform) ==
  IF transform = W("count") THEN Num(Cardinality(I))
  ELSE SumOfY(I, Len(chartConfig.data))

\* the y cell of the row does not parse as a number
UnparseableY(row) == IsNaN(ParseFloat(Get(row, chartConfig.y.s)))

\* C17: in the grouped strategy every (x value, group value) cell holds, with
\* sum, the sum of the coerced y values of its rows (an unparseable y being
\* 0); with count, the number of its rows; with none, the same as with sum.
\* Checked under SpecGrouped.
C17_GroupedSumAndCount ==
  rendered = "grouped" /\ chartConfig.dataTransform # W("average") =>
    \A i \in 1..Len(DistinctX), g \in 1..Len(DistinctGroups) :
      CellIs(DistinctX[i], DistinctGroups[g],
             CellValue(Matching(DistinctX[i], DistinctGroups[g]),
                       chartConfig.dataTransform))

\* C17's case: with none, a cell of two rows, one of them without a y cell
C17_Witness ==
  /\ rendered = "grouped"
  /\ chartConfig.dataTransform = W("none")
  /\ \E i \in 1..Len(DistinctX), g \in 1..Len(DistinctGroups) :
       LET I == Matching(DistinctX[i], DistinctGroups[g])
       IN  /\ Cardinality(I) = 2
           /\ \E r \in I : UnparseableY(chartConfig.data[r])
           /\ CellIs(DistinctX[i], DistinctGroups[g], Num(5))

\* the rows of the input of category name (the x value as a string)
InCategory(name) ==
  {i \in 1..Len(chartConfig.data) :
     Str(ToStr(Get(chartConfig.data[i], chartConfig.x.s))) = name}

Categories == {Str(ToStr(DistinctX[i])) : i \in 1..Len(DistinctX)}

\* C18: the pie strategy returns one entry per distinct x category, whatever
\* groupBy is; its value is the sum of the coerced y values of the category's
\* rows for sum and none, the number of its rows for count, and the sum
\* divided by the number of rows for average; an unparseable y adds 0.
\* Checked under SpecPie.
C18_PieValuePerCategory ==
  rendered = "pie" =>
    /\ {chartData[j].name : j \in 1..Len(chartData)} = Categories
    /\ Len(chartData) = Cardinality(Categories)
    /\ \A j \in 1..Len(chartData) :
         LET I == InCategory(chartData[j].name)
         IN  chartData[j].value =
               (IF chartConfig.dataTransform = W("average")
                  THEN NumDiv(SumOfY(I, Len(chartConfig.data)), Num(Cardinality(I)))
                  ELSE CellValue(I, chartConfig.dataTransform))

\* C18's case: average with a groupBy, over a category of two rows of which
\* one has no y cell
C18_Witness ==
  /\ rendered = "pie"
  /\ chartConfig.groupBy # Null
  /\ chartConfig.dataTransform = W("average")
  /\ \E j \in 1..Len(chartData) :
       LET I == InCategory(chartData[j].name)
       IN  /\ Cardinality(I) = 2
           /\ \E r \in I : UnparseableY(chartConfig.data[r])
           /\ chartData[j].value = Num(1)

\* the number in a y cell, 0 when there is none
NumberOrZero(cell) == IF IsNaN(ParseFloat(cell)) THEN Num(0) ELSE ParseFloat(cell)

\* C19: the plain strategy returns one record per row, in the order of the
\* rows; each has the fields of its row unchanged except y, which is the
\* number parsed from the y cell, or 0 when the cell is empty, absent or does
\* not parse; dataTransform does not matter.  Checked under SpecRender.
C19_PlainCoercesY ==
  rendered = "plain" =>
    /\ Len(chartData) = Len(chartConfig.data)
    /\ \A i \in 1..Len(chartData) :
         LET row == chartConfig.data[i]
             y == chartConfig.y.s
         IN  /\ KeysOf(chartData[i]) = KeysOf(row) \cup {y}
             /\ Len(chartData[i]) = Cardinality(KeysOf(chartData[i]))
             /\ \A k \in KeysOf(row) \ {y} : Get(chartData[i], k) = Get(row, k)
             /\ Get(chartData[i], y) = NumberOrZero(Get(row, y))

\* C19's case: two rows, the first with a y cell that is text and the second
\* without one
C19_Witness ==
  /\ rendered = "plain"
  /\ Len(chartData) = 2
  /\ Get(chartConfig.data[1], chartConfig.y.s) = W("b")
  /\ ~Has(chartConfig.data[2], chartConfig.y.s)
  /\ chartConfig.dataTransform = W("average")

----------------------------------------------------------------------------
(* Claims about handleSubmit, checked under SpecSubmit *)

\* a step that ends a run of handleSubmit
RunEnds == pc # "idle" /\ pc' = "idle"

\* the run got a success and decoded it
GotSuccess == pc = "json" /\ response.status = 200 /\ chartConfig' # Null

\* C20: every run of handleSubmit ends with loading false and exactly one of
\* chartConfig and error set: after a success that was decoded, chartConfig
\* is the response, error is null and the modal is shown; after an error
\* status or a throw, error is set and chartConfig is null; and while no run
\* is under way this stays so, so no chart of an earlier run outlives a
\* failed one.
C20_SubmitEndsInOneOutcome ==
  /\ [](pc = "idle" /\ body # NoBody =>
          /\ ~loading
          /\ (chartConfig = Null) # (error = Null))
  /\ [][RunEnds =>
          /\ ~loading'
          /\ (chartConfig' = Null) # (error' = Null)
          /\ GotSuccess =>
               /\ chartConfig' = ConfigOf(response.json)
               /\ error' = Null
               /\ showModal'
          /\ (pc = "fetch" \/ response.status # 200) =>
               /\ chartConfig' = Null
               /\ error' # Null]_vars

\* C20's case: a run has failed after an earlier run had set a chart
C20_Witness ==
  /\ pc = "idle"
  /\ error # Null
  /\ showModal

\* C20's other case: a run has succeeded
C20_SuccessReached == pc = "idle" /\ chartConfig # Null /\ error = Null

====
